---- MODULE Spec2Model ----
(***************************************************************************)
(* falcon: the queue handler (Intake Poller) that stages Cromwell's        *)
(* "On Hold" workflows in an in-memory queue, and the igniter (Release     *)
(* Engine) that pops one workflow per cycle and releases it.               *)
(*                                                                         *)
(* Spec         both threads and the engine, from construction.           *)
(* SpecIgniter  the igniter alone on a handler whose queue holds workflow  *)
(*              objects that carry a labels mapping.                       *)
(* SpecPrepare  one publication (prepare, swap, enqueue) of an arbitrary   *)
(*              list of metadata blocks.                                   *)
(* SpecApp      __main__: the settings are read, both threads are spawned  *)
(*              and /health is served while they run.                      *)
(* SpecEq       one comparison Workflow.__eq__(self, other).               *)
(* SpecLoops    both threads on a handler whose queue holds labelled       *)
(*              workflows when the igniter's loop is entered.              *)
(* SpecFair     SpecLoops under fair scheduling, every engine call         *)
(*              answered with success.                                     *)
(* SpecSpawn    two calls of spawn_and_start on the constructed objects.   *)
(***************************************************************************)
EXTENDS Naturals, Sequences, FiniteSets

VARIABLES
    engine,          \* Cromwell's workflows, in submission order (index = id)
    pc_h,            \* position of the queue handler thread
    polls,           \* number of queries the handler has sent
    h_status,        \* status code of the handler's last query response (0: none yet)
    workflow_metas,  \* what retrieve_workflows returned in this cycle
    workflows,       \* the part of the workflows iterator not consumed yet
    workflow_queue,  \* QueueHandler.workflow_queue: the Queue instance now referenced
    queues,          \* contents of every Queue instance created so far
    h_cycle,         \* history of the handler's cycle: reference at its start, swaps, puts
    snap_of,         \* history: per Queue instance, the snapshot it was created for
    popped,          \* history: per Queue instance, the ids got from it so far
    pc_i,            \* position of the igniter thread
    i_ref,           \* the Queue instance the igniter loaded from handler.workflow_queue
    workflow,        \* the workflow the igniter got in this cycle
    exc,             \* an exception is propagating out of execution_event
    i_calls,         \* history: the igniter's Cromwell API calls of this cycle
    dup_answer,      \* history: how Cromwell answered this cycle's duplicate query
    i_cycle,         \* history of the igniter's cycle: gets, sleep_for calls, release answer
    config,          \* what the configuration file gives for cromwell_query_dict
    settings,        \* settings['cromwell_query_dict'] as get_settings returned it
    cromwell_query_dict,  \* QueueHandler.cromwell_query_dict
    pc_m,            \* position of the main thread
    h_thread,        \* QueueHandler.thread
    i_thread,        \* Igniter.thread
    pc_s,            \* position of a request to /health
    active_falcon_threads,  \* status(): the threads it found by name
    health,          \* what the last request to /health returned
    args,            \* arguments of a call of Workflow.__eq__ or Igniter.spawn_and_start
    returned         \* what that call returned or raised

vars == <<engine, pc_h, polls, h_status, workflow_metas, workflows, workflow_queue,
          queues, h_cycle, snap_of, popped, pc_i, i_ref, workflow, exc, i_calls,
          dup_answer, i_cycle, config, settings, cromwell_query_dict, pc_m, h_thread,
          i_thread, pc_s, active_falcon_threads, health, args, returned>>

handlerVars == <<pc_h, polls, h_status, workflow_metas, workflows, workflow_queue,
                 h_cycle, snap_of>>
igniterVars == <<pc_i, i_ref, workflow, exc, i_calls, dup_answer, i_cycle>>
mainVars == <<config, settings, cromwell_query_dict, pc_m, h_thread, i_thread>>
healthVars == <<pc_s, active_falcon_threads, health>>
callVars == <<args, returned>>
appVars == <<mainVars, healthVars, callVars>>

----------------------------------------------------------------------------
(* Bounds of the model *)

MaxWf == 3        \* workflows ever submitted to the engine
MaxPolls == 2     \* queries the handler sends
MaxMetas == 3     \* length of the metadata lists given to prepare_workflows
MaxTime == 3      \* submission timestamps 1..MaxTime of those lists
MaxIgnWf == 2     \* workflows (and bundle versions) of the engine the igniter runs against
MaxAppWf == 1     \* workflows submitted while the program's start and /health are followed
MaxEqId == 2      \* ids of the Workflow objects that are compared
MaxLoopWf == 2    \* workflows of the engine both loops run against

----------------------------------------------------------------------------
(* Python values *)

\* None; also what dict.get returns for a missing key
None == 0

\* a dict is a set of <<key, value>> pairs with distinct keys
Keys(d) == {p[1] : p \in d}

Get(d, k) == IF k \in Keys(d) THEN (CHOOSE p \in d : p[1] = k)[2] ELSE None

Reverse(s) == [k \in 1..Len(s) |-> s[Len(s) + 1 - k]]

Ids(s) == [k \in 1..Len(s) |-> s[k].id]

\* a metadata block of a query result
Meta(e) == [id |-> e.id, submission |-> e.submission,
            has_labels |-> e.has_labels, labels |-> e.labels]

Map_Meta(s) == [k \in 1..Len(s) |-> Meta(s[k])]

\* retrieve_workflows returns None or the list response.json()['results']
NoMetas == [is_none |-> TRUE, list |-> <<>>]
SomeMetas(l) == [is_none |-> FALSE, list |-> l]

----------------------------------------------------------------------------
(* Cromwell *)

OnHold == "On Hold"

\* the engine's workflows that are On Hold, oldest submission first
OnHoldOldestFirst(e) == SelectSeq(e, LAMBDA w : w.status = OnHold)

\* Cromwell before v34 lists oldest first, from v34 on newest first
OnHoldListings(e) ==
    {Map_Meta(OnHoldOldestFirst(e)), Reverse(Map_Meta(OnHoldOldestFirst(e)))}

\* what cromwell_tools.query_workflows can give the handler: a response with a
\* status code and a body (which the handler reads only when the code is 200),
\* or a raised transport error
PollResponses(e) ==
    {[kind |-> "response", status_code |-> 200, results |-> l] : l \in OnHoldListings(e)}
    \cup {[kind |-> "response", status_code |-> c, results |-> l] :
             c \in {400, 500}, l \in OnHoldListings(e)}
    \cup {[kind |-> "error", status_code |-> 0, results |-> <<>>]}

----------------------------------------------------------------------------
(* queue_handler.py *)

\* Workflow.__init__ sets id, bundle_uuid and bundle_version and nothing else:
\* has_labels says whether the object has a labels attribute at all
Workflow(workflow_id, bundle_uuid, bundle_version) ==
    [id |-> workflow_id, bundle_uuid |-> bundle_uuid, bundle_version |-> bundle_version,
     has_labels |-> FALSE, labels |-> {}]

NoWorkflow == Workflow(None, None, None)

assemble_workflow_with_labels(workflow_meta) ==
    [id |-> workflow_meta.id,
     bundle_uuid |-> IF workflow_meta.has_labels
                     THEN Get(workflow_meta.labels, "bundle-uuid") ELSE None,
     bundle_version |-> IF workflow_meta.has_labels
                        THEN Get(workflow_meta.labels, "bundle-version") ELSE None,
     has_labels |-> TRUE, labels |-> workflow_meta.labels]

\* _assemble_workflow(workflow_meta)
assemble_workflow(workflow_meta) ==
    LET workflow_labels == workflow_meta.labels
        isdict == workflow_meta.has_labels
    IN  Workflow(workflow_meta.id,
                 IF isdict THEN Get(workflow_labels, "bundle-uuid") ELSE None,
                 IF isdict THEN Get(workflow_labels, "bundle-version") ELSE None)

\* datetime.strptime raises ValueError on a missing or malformed timestamp
Parses(submission) == submission # None

is_workflow_list_assumed_oldest_first(workflow_list) == TRUE

is_workflow_list_strictly_oldest_first(workflow_list) ==
    LET head == workflow_list[1].submission
        tail == workflow_list[Len(workflow_list)].submission
    IN  IF ~Parses(head) \/ ~Parses(tail) THEN TRUE ELSE head < tail

is_workflow_list_unparsed_newest_first(workflow_list) ==
    LET head == workflow_list[1].submission
        tail == workflow_list[Len(workflow_list)].submission
    IN  IF ~Parses(head) \/ ~Parses(tail) THEN FALSE ELSE head <= tail

is_workflow_list_in_oldest_first_order(workflow_list) ==
    LET head == workflow_list[1].submission
        tail == workflow_list[Len(workflow_list)].submission
    IN  IF ~Parses(head) \/ ~Parses(tail) THEN TRUE ELSE head <= tail

prepare_workflows_unordered(metas) ==
    [k \in 1..Len(metas) |-> assemble_workflow(metas[k])]

prepare_workflows(metas) ==
    LET ordered == IF ~is_workflow_list_in_oldest_first_order(metas)
                   THEN Reverse(metas) ELSE metas
    IN  [k \in 1..Len(ordered) |-> assemble_workflow(ordered[k])]

retrieve_workflows_unchecked(response) == SomeMetas(response.results)

retrieve_workflows(response) ==
    IF response.status_code # 200 THEN NoMetas ELSE SomeMetas(response.results)

\* `if workflow_metas:` is false for None and for the empty list
Truthy(metas) == ~metas.is_none /\ metas.list # <<>>

create_empty_queue == <<>>

put_first(q, w) == <<w>> \o q

\* Queue.put on an unbounded queue
put(q, w) == Append(q, w)

rebuild_queue_dropped(current, queue) == current

\* the reference QueueHandler.workflow_queue holds after rebuild_queue(queue)
rebuild_queue(current, queue) == queue

NewCycle(ref) == [start_ref |-> ref, swaps |-> 0, made |-> 0, puts |-> <<>>, query |-> {}]

H_Retrieve ==
    /\ pc_h = "query"
    /\ polls < MaxPolls
    /\ polls' = polls + 1
    /\ h_cycle' = [NewCycle(workflow_queue) EXCEPT !.query = cromwell_query_dict]
    /\ \E response \in PollResponses(engine) :
          IF response.kind = "error"
          THEN /\ pc_h' = "dead"
               /\ h_status' = 0
               /\ UNCHANGED workflow_metas
          ELSE /\ pc_h' = "fetched"
               /\ h_status' = response.status_code
               /\ workflow_metas' = retrieve_workflows(response)
    /\ UNCHANGED <<engine, workflows, workflow_queue, queues, snap_of, popped>>
    /\ UNCHANGED igniterVars
    /\ UNCHANGED appVars

\* what H_Prepare does, but an empty result list clears the queue: a new, empty
\* instance replaces the current one
H_Prepare_clears_on_empty ==
    /\ pc_h = "fetched"
    /\ IF Truthy(workflow_metas)
       THEN /\ workflows' = prepare_workflows(workflow_metas.list)
            /\ pc_h' = "swap"
            /\ UNCHANGED <<workflow_queue, queues, snap_of, popped>>
       ELSE /\ pc_h' = "sleep"
            /\ UNCHANGED workflows
            /\ IF workflow_metas.is_none
               THEN UNCHANGED <<workflow_queue, queues, snap_of, popped>>
               ELSE /\ queues' = Append(queues, create_empty_queue)
                    /\ workflow_queue' = Len(queues) + 1
                    /\ snap_of' = Append(snap_of, <<>>)
                    /\ popped' = Append(popped, <<>>)
    /\ UNCHANGED <<engine, polls, h_status, workflow_metas, h_cycle>>
    /\ UNCHANGED igniterVars
    /\ UNCHANGED appVars

\* `if workflow_metas:` and prepare_workflows(workflow_metas); None and the empty
\* list lead to the else branch, which only logs
H_Prepare ==
    /\ pc_h = "fetched"
    /\ IF Truthy(workflow_metas)
       THEN /\ workflows' = prepare_workflows(workflow_metas.list)
            /\ pc_h' = "swap"
       ELSE /\ pc_h' = "sleep"
            /\ UNCHANGED workflows
    /\ UNCHANGED <<engine, polls, h_status, workflow_metas, workflow_queue, queues,
                   h_cycle, snap_of, popped>>
    /\ UNCHANGED igniterVars
    /\ UNCHANGED appVars

H_RebuildQueue ==
    /\ pc_h = "swap"
    /\ queues' = Append(queues, create_empty_queue)
    /\ workflow_queue' = rebuild_queue(workflow_queue, Len(queues) + 1)
    /\ snap_of' = Append(snap_of, workflows)
    /\ popped' = Append(popped, <<>>)
    /\ h_cycle' = [h_cycle EXCEPT !.swaps = @ + 1, !.made = Len(queues) + 1]
    /\ pc_h' = "enqueue"
    /\ UNCHANGED <<engine, polls, h_status, workflow_metas, workflows>>
    /\ UNCHANGED igniterVars
    /\ UNCHANGED appVars

\* what H_Enqueue does, but all the workflows are put in one step
H_Enqueue_batch ==
    /\ pc_h = "enqueue"
    /\ queues' = [queues EXCEPT ![workflow_queue] = @ \o workflows]
    /\ workflows' = <<>>
    /\ h_cycle' = [h_cycle EXCEPT !.puts = @ \o [k \in 1..Len(workflows) |-> workflow_queue]]
    /\ pc_h' = "sleep"
    /\ UNCHANGED <<engine, polls, h_status, workflow_metas, workflow_queue, snap_of,
                   popped>>
    /\ UNCHANGED igniterVars
    /\ UNCHANGED appVars

\* one turn of the loop of enqueue: the next workflow of the iterator is put
H_Enqueue ==
    /\ pc_h = "enqueue"
    /\ IF workflows = <<>>
       THEN /\ pc_h' = "sleep"
            /\ UNCHANGED <<workflows, queues, h_cycle>>
       ELSE /\ queues' = [queues EXCEPT ![workflow_queue] = put(@, Head(workflows))]
            /\ workflows' = Tail(workflows)
            /\ h_cycle' = [h_cycle EXCEPT !.puts = Append(@, workflow_queue)]
            /\ pc_h' = IF Tail(workflows) = <<>> THEN "sleep" ELSE "enqueue"
    /\ UNCHANGED <<engine, polls, h_status, workflow_metas, workflow_queue, snap_of,
                   popped>>
    /\ UNCHANGED igniterVars
    /\ UNCHANGED appVars

\* sleep_for(queue_update_interval) returns and the loop starts its next cycle
H_Wake ==
    /\ pc_h = "sleep"
    /\ pc_h' = "query"
    /\ UNCHANGED <<engine, polls, h_status, workflow_metas, workflows, workflow_queue,
                   queues, h_cycle, snap_of, popped>>
    /\ UNCHANGED igniterVars
    /\ UNCHANGED appVars

----------------------------------------------------------------------------
(* Cromwell, as the igniter calls it *)

\* the workflows of any status that carry the label key-data-hash:data_hash
HashPeers(e, data_hash) ==
    {k \in 1..Len(e) : /\ e[k].has_labels
                       /\ data_hash # None
                       /\ Get(e[k].labels, "key-data-hash") = data_hash}

ResultOf(e, k) ==
    [id |-> e[k].id, status |-> e[k].status,
     bundle_version |-> Get(e[k].labels, "bundle-version")]

\* CromwellAPI.query: a 200 response with the results, a non-200 response whose
\* body has no 'results' (json: KeyError) or is no JSON (ValueError, which newer
\* requests raise as a RequestException), or a raised transport error
DupResponses(e, data_hash) ==
    {[kind |-> "response", status_code |-> 200, body |-> "results",
      results |-> {ResultOf(e, k) : k \in HashPeers(e, data_hash)}]}
    \cup {[kind |-> "response", status_code |-> c, body |-> b, results |-> {}] :
             c \in {400, 500}, b \in {"KeyError", "ValueError", "RequestException"}}
    \cup {[kind |-> "error", status_code |-> 0, body |-> "none", results |-> {}]}

\* CromwellAPI.release_hold: 200 only for a workflow that is On Hold
ReleaseResponses(e, id) ==
    (IF id \in 1..Len(e) /\ e[id].status = OnHold
        THEN {[kind |-> "response", status_code |-> 200]}
        ELSE {[kind |-> "response", status_code |-> c] : c \in {403, 404}})
    \cup {[kind |-> "response", status_code |-> c] : c \in {400, 500}}
    \cup {[kind |-> "error", status_code |-> 0]}

Released(e, id, response) ==
    IF response.kind = "response" /\ response.status_code = 200
    THEN [e EXCEPT ![id].status = "Running"]
    ELSE e

----------------------------------------------------------------------------
(* igniter.py *)

\* a workflow object that has a labels attribute, as execution_event reads it
LabelledWorkflow(meta) ==
    [assemble_workflow(meta) EXCEPT !.has_labels = TRUE, !.labels = meta.labels]

NotForced_ignored(w) == TRUE

\* the left operand of the `and` in execution_event
NotForced(w) == "force" \notin Keys(w.labels)

workflow_is_duplicate_counting_itself(w, response) ==
    IF response.kind = "error" THEN "None"
    ELSE IF response.body = "results"
         THEN IF response.results # {} THEN "True" ELSE "False"
         ELSE IF response.body = "RequestException" THEN "None" ELSE "raise"

\* workflow_is_duplicate: "True" / "False", "None" when the except clause took
\* the error, "raise" when an exception leaves the method
workflow_is_duplicate(w, response) ==
    IF response.kind = "error" THEN "None"
    ELSE IF response.body = "results"
         THEN IF \E result \in response.results : result.id # w.id
              THEN "True" ELSE "False"
         ELSE IF response.body = "RequestException" THEN "None" ELSE "raise"

Call(op, id) == [op |-> op, id |-> id]

NoAnswer == [kind |-> "not issued", results |-> {}]

AnswerOf(response) ==
    [kind |-> IF response.kind = "error" THEN "transport error"
              ELSE IF response.status_code = 200 THEN "ok" ELSE "http error",
     results |-> response.results]

\* Igniter.__init__: settings.get('workflow_start_interval'), in seconds
workflow_start_interval == 1

\* how release_hold answered in release_workflow
NotReleased == [kind |-> "not issued", status_code |-> 0]

ReleaseAnswerOf(response) ==
    [kind |-> IF response.kind = "error" THEN "transport error"
              ELSE IF response.status_code = 200 THEN "ok" ELSE "http error",
     status_code |-> response.status_code]

\* rested: sleep_for has returned since the igniter's last release call
NewIgniterCycle(rested) ==
    [gets |-> 0, sleeps |-> <<>>, rested |-> rested, release |-> NotReleased]

\* the finally clause: sleep_for(self.workflow_start_interval)
sleep_for(c, sleep_time) == [c EXCEPT !.sleeps = Append(@, sleep_time)]

get_blocking(q, block) == IF q = <<>> THEN "wait" ELSE "item"

\* Queue.get(block): an item, or on an empty queue the exception queue.Empty
\* (block false) or a wait for an item (block true)
get(q, block) ==
    IF q # <<>> THEN "item" ELSE IF block THEN "wait" ELSE "queue.Empty"

Caught_nothing(exception) == FALSE

\* the except clause of execution_event
Caught(exception) == exception = "queue.Empty"

\* what I_ReadRef does, but the igniter keeps the Queue it loaded in its first
\* cycle
I_ReadRef_keeps_ref ==
    /\ pc_i = "start"
    /\ i_ref' = i_ref
    /\ workflow' = NoWorkflow
    /\ i_calls' = <<>>
    /\ dup_answer' = NoAnswer
    /\ i_cycle' = NewIgniterCycle(i_cycle.rested)
    /\ pc_i' = "get"
    /\ UNCHANGED <<engine, queues, popped, exc>>
    /\ UNCHANGED handlerVars
    /\ UNCHANGED appVars

\* execution_event loads handler.workflow_queue
I_ReadRef ==
    /\ pc_i = "start"
    /\ i_ref' = workflow_queue
    /\ workflow' = NoWorkflow
    /\ i_calls' = <<>>
    /\ dup_answer' = NoAnswer
    /\ i_cycle' = NewIgniterCycle(i_cycle.rested)
    /\ pc_i' = "get"
    /\ UNCHANGED <<engine, queues, popped, exc>>
    /\ UNCHANGED handlerVars
    /\ UNCHANGED appVars

\* what I_Get does but for the AttributeError: the workflow goes back into
\* handler.workflow_queue
I_Get_requeue ==
    /\ pc_i = "get"
    /\ get(queues[i_ref], FALSE) # "wait"
    /\ IF get(queues[i_ref], FALSE) = "queue.Empty"
       THEN /\ exc' = ~Caught("queue.Empty")
            /\ i_cycle' = sleep_for(i_cycle, workflow_start_interval)
            /\ pc_i' = "sleep"
            /\ UNCHANGED <<queues, popped, workflow>>
       ELSE /\ popped' = [popped EXCEPT ![i_ref] = Append(@, Head(queues[i_ref]).id)]
            /\ workflow' = Head(queues[i_ref])
            /\ IF ~Head(queues[i_ref]).has_labels
               THEN /\ exc' = FALSE
                    /\ queues' = [[queues EXCEPT ![i_ref] = Tail(@)]
                                     EXCEPT ![workflow_queue] = put(@, Head(queues[i_ref]))]
                    /\ i_cycle' = sleep_for([i_cycle EXCEPT !.gets = @ + 1],
                                            workflow_start_interval)
                    /\ pc_i' = "sleep"
               ELSE /\ UNCHANGED exc
                    /\ queues' = [queues EXCEPT ![i_ref] = Tail(@)]
                    /\ i_cycle' = [i_cycle EXCEPT !.gets = @ + 1]
                    /\ pc_i' = IF NotForced(Head(queues[i_ref]))
                               THEN "check" ELSE "release"
    /\ UNCHANGED <<engine, i_ref, i_calls, dup_answer>>
    /\ UNCHANGED handlerVars
    /\ UNCHANGED appVars

\* get(block=False) on the loaded instance, then the test of the labels:
\* queue.Empty is caught; workflow.labels on an object without that attribute
\* raises AttributeError, which no except clause takes. An exception, caught or
\* not, leads to the finally clause
I_Get ==
    /\ pc_i = "get"
    /\ get(queues[i_ref], FALSE) # "wait"
    /\ IF get(queues[i_ref], FALSE) = "queue.Empty"
       THEN /\ exc' = ~Caught("queue.Empty")
            /\ i_cycle' = sleep_for(i_cycle, workflow_start_interval)
            /\ pc_i' = "sleep"
            /\ UNCHANGED <<queues, popped, workflow>>
       ELSE /\ queues' = [queues EXCEPT ![i_ref] = Tail(@)]
            /\ popped' = [popped EXCEPT ![i_ref] = Append(@, Head(queues[i_ref]).id)]
            /\ workflow' = Head(queues[i_ref])
            /\ IF ~Head(queues[i_ref]).has_labels
               THEN /\ exc' = ~Caught("AttributeError")
                    /\ i_cycle' = sleep_for([i_cycle EXCEPT !.gets = @ + 1],
                                            workflow_start_interval)
                    /\ pc_i' = "sleep"
               ELSE /\ UNCHANGED exc
                    /\ i_cycle' = [i_cycle EXCEPT !.gets = @ + 1]
                    /\ pc_i' = IF NotForced(Head(queues[i_ref]))
                               THEN "check" ELSE "release"
    /\ UNCHANGED <<engine, i_ref, i_calls, dup_answer>>
    /\ UNCHANGED handlerVars
    /\ UNCHANGED appVars

\* workflow_is_duplicate(workflow) and the branch on its result; a duplicate or
\* an exception leads to the finally clause
I_Query ==
    /\ pc_i = "check"
    /\ i_calls' = Append(i_calls, Call("query", workflow.id))
    /\ \E response \in DupResponses(engine, Get(workflow.labels, "key-data-hash")) :
          /\ dup_answer' = AnswerOf(response)
          /\ LET dup == workflow_is_duplicate(workflow, response)
             IN  /\ exc' = (dup = "raise")
                 /\ pc_i' = IF dup \in {"True", "raise"} THEN "sleep" ELSE "release"
                 /\ i_cycle' = IF dup \in {"True", "raise"}
                               THEN sleep_for(i_cycle, workflow_start_interval)
                               ELSE i_cycle
    /\ UNCHANGED <<engine, queues, popped, i_ref, workflow>>
    /\ UNCHANGED handlerVars
    /\ UNCHANGED appVars

\* what I_Release does, but a workflow whose release failed goes back into
\* handler.workflow_queue
I_Release_requeue ==
    /\ pc_i = "release"
    /\ i_calls' = Append(i_calls, Call("release", workflow.id))
    /\ \E response \in ReleaseResponses(engine, workflow.id) :
          /\ engine' = Released(engine, workflow.id, response)
          /\ i_cycle' = sleep_for([i_cycle EXCEPT !.release = ReleaseAnswerOf(response),
                                                  !.rested = FALSE],
                                  workflow_start_interval)
          /\ queues' = IF ReleaseAnswerOf(response).kind = "ok" THEN queues
                       ELSE [queues EXCEPT ![workflow_queue] = put(@, workflow)]
    /\ pc_i' = "sleep"
    /\ UNCHANGED <<popped, i_ref, workflow, exc, dup_answer>>
    /\ UNCHANGED handlerVars
    /\ UNCHANGED appVars

\* what I_Release does, but after a 403 the next cycle starts without the sleep
I_Release_no_sleep_for_403 ==
    /\ pc_i = "release"
    /\ i_calls' = Append(i_calls, Call("release", workflow.id))
    /\ \E response \in ReleaseResponses(engine, workflow.id) :
          /\ engine' = Released(engine, workflow.id, response)
          /\ IF response.status_code = 403
             THEN /\ i_cycle' = [i_cycle EXCEPT !.release = ReleaseAnswerOf(response),
                                                !.rested = FALSE]
                  /\ pc_i' = "start"
             ELSE /\ i_cycle' = sleep_for([i_cycle EXCEPT
                                              !.release = ReleaseAnswerOf(response),
                                              !.rested = FALSE],
                                          workflow_start_interval)
                  /\ pc_i' = "sleep"
    /\ UNCHANGED <<queues, popped, i_ref, workflow, exc, dup_answer>>
    /\ UNCHANGED handlerVars
    /\ UNCHANGED appVars

\* release_workflow(workflow): a non-200 status is logged, a transport error is
\* caught and logged; then the finally clause
I_Release ==
    /\ pc_i = "release"
    /\ i_calls' = Append(i_calls, Call("release", workflow.id))
    /\ \E response \in ReleaseResponses(engine, workflow.id) :
          /\ engine' = Released(engine, workflow.id, response)
          /\ i_cycle' = sleep_for([i_cycle EXCEPT !.release = ReleaseAnswerOf(response),
                                                  !.rested = FALSE],
                                  workflow_start_interval)
    /\ pc_i' = "sleep"
    /\ UNCHANGED <<queues, popped, i_ref, workflow, exc, dup_answer>>
    /\ UNCHANGED handlerVars
    /\ UNCHANGED appVars

\* sleep_for(workflow_start_interval) in the finally clause returns; a pending
\* exception then leaves execution_loop and the thread ends
I_Wake ==
    /\ pc_i = "sleep"
    /\ pc_i' = IF exc THEN "dead" ELSE "start"
    /\ i_cycle' = [i_cycle EXCEPT !.rested = TRUE]
    /\ UNCHANGED <<engine, queues, popped, i_ref, workflow, exc, i_calls, dup_answer>>
    /\ UNCHANGED handlerVars
    /\ UNCHANGED appVars

----------------------------------------------------------------------------
(* The engine's other clients *)

\* a workflow is submitted on hold; Cromwell stamps its submission time
E_Submit ==
    /\ Len(engine) < MaxWf
    /\ LET id == Len(engine) + 1
       IN  engine' = Append(engine,
               [id |-> id, submission |-> id, status |-> OnHold, has_labels |-> TRUE,
                labels |-> {<<"bundle-uuid", id>>, <<"bundle-version", id>>}])
    /\ UNCHANGED <<queues, popped>>
    /\ UNCHANGED handlerVars
    /\ UNCHANGED igniterVars
    /\ UNCHANGED appVars

\* a workflow on hold is aborted by another client
E_Leave ==
    /\ \E k \in 1..Len(engine) :
          /\ engine[k].status = OnHold
          /\ engine' = [engine EXCEPT ![k].status = "Aborted"]
    /\ UNCHANGED <<queues, popped>>
    /\ UNCHANGED handlerVars
    /\ UNCHANGED igniterVars
    /\ UNCHANGED appVars

----------------------------------------------------------------------------
(* settings.py *)

\* dict.update
Update(d, e) == {p \in d : p[1] \notin Keys(e)} \cup e

\* the configuration file, as far as cromwell_query_dict goes
Config(present, query_dict) == [present |-> present, cromwell_query_dict |-> query_dict]

get_settings_setdefault(cfg) ==
    LET query_dict == IF cfg.present THEN cfg.cromwell_query_dict ELSE {}
    IN  IF "status" \notin Keys(query_dict)
        THEN Update(query_dict, {<<"status", OnHold>>}) ELSE query_dict

\* get_settings: settings['cromwell_query_dict']
get_settings(cfg) ==
    LET query_dict == IF cfg.present THEN cfg.cromwell_query_dict ELSE {}
    IN  IF <<"status", OnHold>> \notin query_dict
        THEN Update(query_dict, {<<"status", OnHold>>}) ELSE query_dict

----------------------------------------------------------------------------
(* __main__.py, and the methods it calls *)

\* a Python object with its class
Obj(type, value) == [type |-> type, value |-> value]

isinstance(obj, type) == obj.type = type

\* QueueHandler.__init__: self.cromwell_query_dict
HandlerQueryDict ==
    {<<"status", OnHold>>, <<"additionalQueryResultFields", "labels">>,
     <<"includeSubworkflows", "false">>}

\* the names the threads are created with: QueueHandler.spawn_and_start gives
\* none (Thread-1), Igniter.spawn_and_start gives 'igniter'
HandlerThreadName == "Thread-1"
IgniterThreadName == "igniter"

FALCON_THREAD_NAMES == {"queueHandler", "igniter"}

spawn_and_start_unchecked(thread, handler) ==
    [thread |-> "started",
     raised |-> IF thread = "started" THEN "RuntimeError" ELSE "none"]

\* self.thread before spawn_and_start
NoThread == "None"

\* Igniter.spawn_and_start(handler): the Thread is created if self.thread is
\* not set yet, and started (a Thread can be started once)
spawn_and_start(thread, handler) ==
    IF ~isinstance(handler, "QueueHandler")
    THEN [thread |-> thread, raised |-> "TypeError"]
    ELSE [thread |-> "started",
          raised |-> IF thread = "started" THEN "RuntimeError" ELSE "none"]

\* what Igniter.spawn_and_start is called with
SpawnArgs ==
    {Obj("QueueHandler", "handler"), Obj("fake_handler", "not_a_real_queue_handler"),
     Obj("Queue", "queue"), Obj("NoneType", "None")}

\* QueueHandler(config_path) and Igniter(config_path)
M_Construct ==
    /\ pc_m = "config"
    /\ settings' = get_settings(config)
    /\ cromwell_query_dict' = HandlerQueryDict
    /\ pc_m' = "spawn_handler"
    /\ UNCHANGED <<config, h_thread, i_thread>>
    /\ UNCHANGED <<engine, queues, popped>>
    /\ UNCHANGED <<handlerVars, igniterVars, healthVars, callVars>>

\* handler.spawn_and_start()
M_SpawnHandler ==
    /\ pc_m = "spawn_handler"
    /\ h_thread' = "started"
    /\ pc_h' = "query"
    /\ pc_m' = "spawn_igniter"
    /\ UNCHANGED <<config, settings, cromwell_query_dict, i_thread>>
    /\ UNCHANGED <<engine, queues, popped>>
    /\ UNCHANGED <<polls, h_status, workflow_metas, workflows, workflow_queue, h_cycle,
                   snap_of>>
    /\ UNCHANGED <<igniterVars, healthVars, callVars>>

\* igniter.spawn_and_start(handler); a TypeError ends the main thread before
\* the web server starts
M_SpawnIgniter ==
    /\ pc_m = "spawn_igniter"
    /\ \E handler \in SpawnArgs :
          LET r == spawn_and_start(i_thread, handler)
          IN  /\ args' = <<handler>>
              /\ returned' = r.raised
              /\ i_thread' = r.thread
              /\ pc_i' = IF r.thread = "started" /\ r.raised = "none"
                         THEN "start" ELSE pc_i
              /\ pc_m' = IF r.raised = "none" THEN "serving" ELSE "dead"
    /\ UNCHANGED <<config, settings, cromwell_query_dict, h_thread>>
    /\ UNCHANGED <<engine, queues, popped>>
    /\ UNCHANGED <<i_ref, workflow, exc, i_calls, dup_answer, i_cycle>>
    /\ UNCHANGED <<handlerVars, healthVars>>

\* Thread.is_alive of the two loop threads
HandlerAlive == h_thread = "started" /\ pc_h # "dead"
IgniterAlive == i_thread = "started" /\ pc_i # "dead"

\* threading.enumerate(): the names of the threads that are alive
ActiveThreads ==
    {n \in {HandlerThreadName} : HandlerAlive} \cup {n \in {IgniterThreadName} : IgniterAlive}

\* history: the loop threads that have ended
Terminated ==
    {n \in {"handler"} : h_thread = "started" /\ pc_h = "dead"}
    \cup {n \in {"igniter"} : i_thread = "started" /\ pc_i = "dead"}

NoHealth == [kind |-> "none", threads |-> {}, terminated |-> {}]

\* status(): active_falcon_threads, the threads of threading.enumerate() that
\* have one of FALCON_THREAD_NAMES
S_Enumerate ==
    /\ pc_m = "serving"
    /\ pc_s = "idle"
    /\ active_falcon_threads' = ActiveThreads \cap FALCON_THREAD_NAMES
    /\ health' = [kind |-> "pending", threads |-> {}, terminated |-> Terminated]
    /\ pc_s' = "listed"
    /\ UNCHANGED <<engine, queues, popped>>
    /\ UNCHANGED <<handlerVars, igniterVars, mainVars, callVars>>

\* status(): the loop over active_falcon_threads with is_alive, and the report
S_Report ==
    /\ pc_m = "serving"
    /\ pc_s = "listed"
    /\ health' = IF active_falcon_threads \subseteq ActiveThreads
                 THEN [health EXCEPT !.kind = "Falcon threads",
                                     !.threads = active_falcon_threads]
                 ELSE [health EXCEPT !.kind = "Error in thread",
                                     !.threads = active_falcon_threads \ ActiveThreads]
    /\ pc_s' = "idle"
    /\ UNCHANGED active_falcon_threads
    /\ UNCHANGED <<engine, queues, popped>>
    /\ UNCHANGED <<handlerVars, igniterVars, mainVars, callVars>>

QueueHandler_spawn_and_start_respawns(thread) ==
    [thread |-> "started", raised |-> "none"]

\* QueueHandler.spawn_and_start(): the Thread is created if self.thread is not
\* set yet, and started; start() on a Thread that was started before raises
\* RuntimeError and runs nothing
QueueHandler_spawn_and_start(thread) ==
    [thread |-> "started",
     raised |-> IF thread = "started" THEN "RuntimeError" ELSE "none"]

\* the position of a caller that makes two calls of spawn_and_start
AfterCall(pc) == IF pc = "call" THEN "called_once" ELSE "called_twice"

\* handler.spawn_and_start(), called on a handler whatever its thread is; the
\* loop begins when start() returns
C_SpawnHandler ==
    /\ pc_m \in {"call", "called_once"}
    /\ LET r == QueueHandler_spawn_and_start(h_thread)
       IN  /\ args' = <<Obj("QueueHandler", "self")>>
           /\ returned' = r.raised
           /\ h_thread' = r.thread
           /\ pc_h' = IF r.raised = "none" THEN "query" ELSE pc_h
    /\ pc_m' = AfterCall(pc_m)
    /\ UNCHANGED <<config, settings, cromwell_query_dict, i_thread>>
    /\ UNCHANGED <<engine, queues, popped>>
    /\ UNCHANGED <<polls, h_status, workflow_metas, workflows, workflow_queue, h_cycle,
                   snap_of>>
    /\ UNCHANGED <<igniterVars, healthVars>>

\* igniter.spawn_and_start(handler), called on an igniter whatever its thread is
C_SpawnIgniter ==
    /\ pc_m \in {"call", "called_once"}
    /\ \E handler \in SpawnArgs :
          LET r == spawn_and_start(i_thread, handler)
          IN  /\ args' = <<Obj("Igniter", "self"), handler>>
              /\ returned' = r.raised
              /\ i_thread' = r.thread
              /\ pc_i' = IF r.raised = "none" THEN "start" ELSE pc_i
    /\ pc_m' = AfterCall(pc_m)
    /\ UNCHANGED <<config, settings, cromwell_query_dict, h_thread>>
    /\ UNCHANGED <<engine, queues, popped>>
    /\ UNCHANGED <<i_ref, workflow, exc, i_calls, dup_answer, i_cycle>>
    /\ UNCHANGED <<handlerVars, healthVars>>

\* the engine's clients while the start of the program is followed
E_SubmitFew == E_Submit /\ Len(engine) < MaxAppWf

----------------------------------------------------------------------------
(* Workflow.__eq__ *)

Workflow_eq_all_fields(self, other) ==
    IF isinstance(other, "Workflow")
    THEN /\ self.value.id = other.value.id
         /\ self.value.bundle_uuid = other.value.bundle_uuid
         /\ self.value.bundle_version = other.value.bundle_version
    ELSE FALSE

\* Workflow.__eq__(self, other)
Workflow_eq(self, other) ==
    IF isinstance(other, "Workflow") THEN self.value.id = other.value.id ELSE FALSE

\* self == other
C_Eq ==
    /\ pc_m = "call"
    /\ returned = "none"
    /\ returned' = IF Workflow_eq(args[1], args[2]) THEN "True" ELSE "False"
    /\ UNCHANGED args
    /\ UNCHANGED <<engine, queues, popped>>
    /\ UNCHANGED <<handlerVars, igniterVars, mainVars, healthVars>>

----------------------------------------------------------------------------
(* Specifications *)

InitHandler ==
    /\ pc_h = "query"
    /\ polls = 0
    /\ h_status = 0
    /\ workflow_metas = NoMetas
    /\ workflows = <<>>
    /\ workflow_queue = 1
    /\ h_cycle = NewCycle(1)
    /\ snap_of = <<<<>>>>

InitIgniter ==
    /\ pc_i = "start"
    /\ i_ref = 1
    /\ workflow = NoWorkflow
    /\ exc = FALSE
    /\ i_calls = <<>>
    /\ dup_answer = NoAnswer
    /\ i_cycle = NewIgniterCycle(TRUE)

\* the configuration files: cromwell_query_dict absent, or with or without a
\* status entry
Configs ==
    {Config(FALSE, {}),
     Config(TRUE, {<<"status", "Running">>}),
     Config(TRUE, {<<"status", OnHold>>, <<"includeSubworkflows", "false">>}),
     Config(TRUE, {<<"name", "AdapterSmartSeq2">>})}

\* the program after __main__ has constructed and started both threads
InitStarted ==
    /\ config = Config(FALSE, {})
    /\ settings = get_settings(config)
    /\ cromwell_query_dict = HandlerQueryDict
    /\ pc_m = "serving"
    /\ h_thread = "started"
    /\ i_thread = "started"
    /\ pc_s = "idle"
    /\ active_falcon_threads = {}
    /\ health = NoHealth
    /\ args = <<>>
    /\ returned = "none"

Init ==
    /\ engine = <<>>
    /\ queues = <<create_empty_queue>>
    /\ popped = <<<<>>>>
    /\ InitHandler
    /\ InitIgniter
    /\ InitStarted

Next ==
    \/ E_Submit
    \/ E_Leave
    \/ H_Retrieve
    \/ H_Prepare
    \/ H_RebuildQueue
    \/ H_Enqueue
    \/ H_Wake
    \/ I_ReadRef
    \/ I_Get
    \/ I_Wake

Spec == Init /\ [][Next]_vars

\* the labels of the workflows the igniter is run against
Hashes == {1, 2}
Versions == 1..MaxIgnWf

IgniterWfs(id) ==
    {[id |-> id, submission |-> id, status |-> OnHold, has_labels |-> TRUE,
      labels |-> {<<"key-data-hash", h>>, <<"bundle-version", v>>} \cup f] :
        h \in Hashes, v \in Versions, f \in {{}, {<<"force", 1>>}}}
    \cup {[id |-> id, submission |-> id, status |-> OnHold, has_labels |-> TRUE,
            labels |-> {<<"bundle-version", 1>>}]}

RECURSIVE EnginesOf(_)
EnginesOf(n) ==
    IF n = 0 THEN {<<>>}
    ELSE {Append(e, w) : e \in EnginesOf(n - 1), w \in IgniterWfs(n)}

InitOfIgniter ==
    /\ engine \in EnginesOf(MaxIgnWf)
    /\ queues = <<[k \in 1..Len(OnHoldOldestFirst(engine)) |->
                      LabelledWorkflow(Meta(OnHoldOldestFirst(engine)[k]))]>>
    /\ popped = <<<<>>>>
    /\ InitHandler
    /\ InitIgniter
    /\ InitStarted

NextIgniter ==
    \/ I_ReadRef
    \/ I_Get
    \/ I_Query
    \/ I_Release
    \/ I_Wake
    \/ E_Leave

SpecIgniter == InitOfIgniter /\ [][NextIgniter]_vars

\* the metadata lists given to prepare_workflows: any order of submission
\* timestamps, None where the timestamp is missing or malformed, with or
\* without the labels sub-map
MetasOf(id) ==
    {[id |-> id, submission |-> t, has_labels |-> b,
      labels |-> IF b THEN {<<"bundle-uuid", id>>, <<"bundle-version", id>>} ELSE {}] :
        t \in 0..MaxTime, b \in BOOLEAN}

RECURSIVE MetaLists(_)
MetaLists(n) ==
    IF n = 0 THEN {<<>>}
    ELSE {Append(l, m) : l \in MetaLists(n - 1), m \in MetasOf(n)}

InitPrepare ==
    /\ engine = <<>>
    /\ queues = <<create_empty_queue>>
    /\ popped = <<<<>>>>
    /\ pc_h = "fetched"
    /\ polls = 1
    /\ h_status = 200
    /\ \E n \in 1..MaxMetas : workflow_metas \in {SomeMetas(l) : l \in MetaLists(n)}
    /\ workflows = <<>>
    /\ workflow_queue = 1
    /\ h_cycle = NewCycle(1)
    /\ snap_of = <<<<>>>>
    /\ InitIgniter
    /\ InitStarted

NextPrepare ==
    \/ H_Prepare
    \/ H_RebuildQueue
    \/ H_Enqueue

SpecPrepare == InitPrepare /\ [][NextPrepare]_vars

\* the program from the start of __main__: the configuration is read, the two
\* objects are constructed, their threads started, and /health is served
InitApp ==
    /\ engine = <<>>
    /\ queues = <<create_empty_queue>>
    /\ popped = <<<<>>>>
    /\ pc_h = "unstarted"
    /\ polls = 0
    /\ h_status = 0
    /\ workflow_metas = NoMetas
    /\ workflows = <<>>
    /\ workflow_queue = 1
    /\ h_cycle = NewCycle(1)
    /\ snap_of = <<<<>>>>
    /\ pc_i = "unstarted"
    /\ i_ref = 1
    /\ workflow = NoWorkflow
    /\ exc = FALSE
    /\ i_calls = <<>>
    /\ dup_answer = NoAnswer
    /\ i_cycle = NewIgniterCycle(TRUE)
    /\ config \in Configs
    /\ settings = {}
    /\ cromwell_query_dict = {}
    /\ pc_m = "config"
    /\ h_thread = NoThread
    /\ i_thread = NoThread
    /\ pc_s = "idle"
    /\ active_falcon_threads = {}
    /\ health = NoHealth
    /\ args = <<>>
    /\ returned = "none"

NextApp ==
    \/ M_Construct
    \/ M_SpawnHandler
    \/ M_SpawnIgniter
    \/ S_Enumerate
    \/ S_Report
    \/ E_SubmitFew
    \/ H_Retrieve
    \/ H_Prepare
    \/ H_RebuildQueue
    \/ H_Enqueue
    \/ H_Wake
    \/ I_ReadRef
    \/ I_Get
    \/ I_Wake

SpecApp == InitApp /\ [][NextApp]_vars

\* the values Workflow.__eq__ is called on: Workflow objects, and for other
\* also an id, None and a metadata block
EqWorkflows ==
    {Obj("Workflow", Workflow(id, u, v)) :
        id \in 1..MaxEqId, u \in {None, 1}, v \in {None, 1}}

EqOthers ==
    {Obj("int", [id |-> id]) : id \in 1..MaxEqId}
    \cup {Obj("dict", [id |-> id]) : id \in 1..MaxEqId}
    \cup {Obj("NoneType", [id |-> None])}

InitEq ==
    /\ engine = <<>>
    /\ queues = <<create_empty_queue>>
    /\ popped = <<<<>>>>
    /\ InitHandler
    /\ InitIgniter
    /\ config = Config(FALSE, {})
    /\ settings = get_settings(config)
    /\ cromwell_query_dict = HandlerQueryDict
    /\ pc_m = "call"
    /\ h_thread = NoThread
    /\ i_thread = NoThread
    /\ pc_s = "idle"
    /\ active_falcon_threads = {}
    /\ health = NoHealth
    /\ args \in {<<self, other>> : self \in EqWorkflows, other \in EqWorkflows \cup EqOthers}
    /\ returned = "none"

NextEq == C_Eq

SpecEq == InitEq /\ [][NextEq]_vars

\* both loops on one handler: execution_loop(handler) is entered with a handler
\* whose queue holds objects that carry labels (the engine's On Hold workflows),
\* while that handler's thread polls and publishes Workflow objects
LoopWfs(id) ==
    {[id |-> id, submission |-> id, status |-> OnHold, has_labels |-> TRUE,
      labels |-> {<<"key-data-hash", id>>, <<"bundle-uuid", id>>,
                  <<"bundle-version", id>>} \cup f] : f \in {{}, {<<"force", 1>>}}}

RECURSIVE LoopEngines(_)
LoopEngines(n) ==
    IF n = 0 THEN {<<>>}
    ELSE {Append(e, w) : e \in LoopEngines(n - 1), w \in LoopWfs(n)}

InitLoops ==
    /\ engine \in LoopEngines(MaxLoopWf)
    /\ queues = <<[k \in 1..Len(OnHoldOldestFirst(engine)) |->
                      LabelledWorkflow(Meta(OnHoldOldestFirst(engine)[k]))]>>
    /\ popped = <<<<>>>>
    /\ InitHandler
    /\ InitIgniter
    /\ InitStarted

NextLoops ==
    \/ H_Retrieve
    \/ H_Prepare
    \/ H_RebuildQueue
    \/ H_Enqueue
    \/ H_Wake
    \/ I_ReadRef
    \/ I_Get
    \/ I_Query
    \/ I_Release
    \/ I_Wake

SpecLoops == InitLoops /\ [][NextLoops]_vars

\* both loops under fair scheduling, with an engine that answers every call
\* with success: each thread that can take a step eventually takes one
H_RetrieveOk == H_Retrieve /\ h_status' = 200

I_QueryOk == I_Query /\ dup_answer'.kind = "ok"

I_ReleaseOk == I_Release /\ i_cycle'.release.kind = "ok"

HandlerNext ==
    H_RetrieveOk \/ H_Prepare \/ H_RebuildQueue \/ H_Enqueue \/ H_Wake

IgniterNext ==
    I_ReadRef \/ I_Get \/ I_QueryOk \/ I_ReleaseOk \/ I_Wake

NextFair ==
    \/ H_RetrieveOk
    \/ H_Prepare
    \/ H_RebuildQueue
    \/ H_Enqueue
    \/ H_Wake
    \/ I_ReadRef
    \/ I_Get
    \/ I_QueryOk
    \/ I_ReleaseOk
    \/ I_Wake

SpecFair ==
    InitLoops /\ [][NextFair]_vars /\ WF_vars(HandlerNext) /\ WF_vars(IgniterNext)

\* two calls of spawn_and_start, on the handler or on the igniter, made on the
\* constructed objects while the loops that were started run
InitSpawn ==
    /\ engine = <<>>
    /\ queues = <<create_empty_queue>>
    /\ popped = <<<<>>>>
    /\ pc_h = "unstarted"
    /\ polls = 0
    /\ h_status = 0
    /\ workflow_metas = NoMetas
    /\ workflows = <<>>
    /\ workflow_queue = 1
    /\ h_cycle = NewCycle(1)
    /\ snap_of = <<<<>>>>
    /\ pc_i = "unstarted"
    /\ i_ref = 1
    /\ workflow = NoWorkflow
    /\ exc = FALSE
    /\ i_calls = <<>>
    /\ dup_answer = NoAnswer
    /\ i_cycle = NewIgniterCycle(TRUE)
    /\ config = Config(FALSE, {})
    /\ settings = get_settings(config)
    /\ cromwell_query_dict = HandlerQueryDict
    /\ pc_m = "call"
    /\ h_thread = NoThread
    /\ i_thread = NoThread
    /\ pc_s = "idle"
    /\ active_falcon_threads = {}
    /\ health = NoHealth
    /\ args = <<>>
    /\ returned = "none"

NextSpawn ==
    \/ C_SpawnHandler
    \/ C_SpawnIgniter
    \/ E_SubmitFew
    \/ H_Retrieve
    \/ H_Prepare
    \/ H_RebuildQueue
    \/ H_Enqueue
    \/ H_Wake
    \/ I_ReadRef
    \/ I_Get
    \/ I_Wake

SpecSpawn == InitSpawn /\ [][NextSpawn]_vars

----------------------------------------------------------------------------
(* Properties of a release cycle (SpecIgniter) *)

CountCalls(op, id) == Cardinality({k \in DOMAIN i_calls : i_calls[k] = Call(op, id)})

\* the igniter got a workflow in this cycle
Got == workflow # NoWorkflow

\* the candidate's labels contain force
HasForce(w) == \E p \in w.labels : p[1] = "force"

\* this release cycle has reached (or passed) its sleep
CycleOver == pc_i \in {"sleep", "start", "dead"}

\* this cycle's duplicate query succeeded and returned an On Hold workflow other
\* than the candidate
OnHoldPeers ==
    {r \in dup_answer.results : r.id # workflow.id /\ r.status = OnHold}

\* C1: a non-forced candidate whose duplicate query returned an On Hold peer with
\* a strictly newer bundle_version is aborted exactly once and not released in
\* that cycle.
C1_NewerPeerAbortsCandidate ==
    (/\ Got /\ CycleOver /\ ~HasForce(workflow)
     /\ dup_answer.kind = "ok"
     /\ \E r \in OnHoldPeers : r.bundle_version > workflow.bundle_version)
    => /\ CountCalls("abort", workflow.id) = 1
       /\ CountCalls("release", workflow.id) = 0

\* C2: for a popped candidate that carries the label force, no duplicate query
\* is issued and, once the cycle is over, release has been called for it.
C2_ForcedIsReleasedUnchecked ==
    (Got /\ HasForce(workflow))
    => /\ dup_answer = NoAnswer
       /\ pc_i # "check"
       /\ \A k \in DOMAIN i_calls : i_calls[k].op # "query"
       /\ CycleOver => i_calls = <<Call("release", workflow.id)>>

\* a forced candidate with a peer of the same hash: the cycle released it
C2_Witness ==
    /\ Got /\ HasForce(workflow) /\ pc_i = "sleep"
    /\ CountCalls("release", workflow.id) = 1
    /\ \E k \in HashPeers(engine, Get(workflow.labels, "key-data-hash")) :
          k # workflow.id /\ engine[k].status = OnHold

\* C3: when the duplicate query of a non-forced candidate fails (transport error
\* or non-2xx response) the cycle calls neither release nor abort.
C3_FailedQuerySkipsCycle ==
    (Got /\ dup_answer.kind \in {"transport error", "http error"})
    => \A k \in DOMAIN i_calls : i_calls[k].op \notin {"release", "abort"}

\* C4: a candidate that has the latest bundle_version among the On Hold results
\* of its duplicate query (all of them On Hold) is released exactly once and not
\* aborted.
C4_LatestVersionIsReleased ==
    (/\ Got /\ CycleOver /\ ~HasForce(workflow)
     /\ dup_answer.kind = "ok"
     /\ \A r \in dup_answer.results : r.status = OnHold
     /\ \A r \in OnHoldPeers : r.bundle_version < workflow.bundle_version)
    => /\ CountCalls("release", workflow.id) = 1
       /\ CountCalls("abort", workflow.id) = 0

----------------------------------------------------------------------------
(* Properties of a poll cycle (Spec) *)

\* the handler thread takes this step
HandlerStep == pc_h' # pc_h \/ polls' # polls

\* the cycle got a 200 response with at least one result and has enqueued all
SuccessfulCycleOver ==
    pc_h = "sleep" /\ h_status = 200 /\ ~workflow_metas.is_none
    /\ workflow_metas.list # <<>>

\* the Workflow objects of a metadata list, oldest submission first (in Spec a
\* workflow's id is its rank of submission)
ExpectedQueue(metas) ==
    LET n == Len(metas)
        at(r) == CHOOSE k \in 1..n : Cardinality({j \in 1..n : metas[j].id < metas[k].id}) = r - 1
    IN  [r \in 1..n |->
            [id |-> metas[at(r)].id,
             bundle_uuid |-> Get(metas[at(r)].labels, "bundle-uuid"),
             bundle_version |-> Get(metas[at(r)].labels, "bundle-version"),
             has_labels |-> FALSE, labels |-> {}]]

\* C5: no step of the handler in a poll cycle whose response has a non-success
\* status changes the queue reference or the contents of any queue instance.
C5_FailedPollKeepsQueue ==
    [][(HandlerStep /\ h_status' \notin {0, 200})
        => (workflow_queue' = workflow_queue /\ queues' = queues)]_vars

\* a second poll failed with 500 while the queue held the first poll's items
C5_Witness ==
    /\ polls = 2 /\ h_status = 500 /\ pc_h = "sleep"
    /\ queues[workflow_queue] # <<>>
    /\ workflow_queue = h_cycle.start_ref

\* C6: in a successful poll cycle the reference is swapped to a new, empty
\* instance before the first enqueue, and every enqueue of the cycle goes into
\* that instance, never into the one referenced when the cycle started.
C6_SwapBeforeEnqueue ==
    /\ pc_h = "enqueue" => (h_cycle.swaps = 1 /\ workflow_queue = h_cycle.made)
    /\ h_cycle.puts # <<>> =>
          /\ h_cycle.swaps = 1
          /\ h_cycle.made # h_cycle.start_ref
          /\ \A k \in DOMAIN h_cycle.puts : h_cycle.puts[k] = h_cycle.made
          /\ Len(queues[h_cycle.made]) + Len(popped[h_cycle.made]) = Len(h_cycle.puts)

\* the second cycle is enqueuing while the replaced instance still holds items
C6_Witness ==
    /\ polls = 2 /\ pc_h = "enqueue" /\ Len(h_cycle.puts) >= 1
    /\ queues[h_cycle.start_ref] # <<>>
    /\ workflow_queue = h_cycle.made

\* C7 as claimed: when a successful poll cycle with N >= 1 results completes,
\* the current queue contains exactly the N items in normalized order.
C7_QueueHoldsAllN ==
    [][(pc_h = "enqueue" /\ pc_h' = "sleep" /\ h_status = 200)
        => queues'[workflow_queue'] = ExpectedQueue(workflow_metas.list)]_vars

\* C7 as amended: after a successful poll cycle with N >= 1 results the handler
\* has put exactly N items into the new instance, and the ids the igniter got
\* from it followed by the ids it still holds are the N ids oldest first.
C7_QueueHoldsUnpoppedOfN ==
    SuccessfulCycleOver
    => LET N == Len(workflow_metas.list)
           q == queues[workflow_queue]
           got == popped[workflow_queue]
       IN  /\ Len(h_cycle.puts) = N
           /\ Len(got) + Len(q) = N
           /\ \A j, k \in 1..N : j < k => (got \o Ids(q))[j] < (got \o Ids(q))[k]
           /\ {(got \o Ids(q))[k] : k \in 1..N} = {workflow_metas.list[k].id : k \in 1..N}

\* a cycle with two or more results is over and the igniter has got one of them
C7_Witness ==
    /\ SuccessfulCycleOver
    /\ Len(workflow_metas.list) >= 2
    /\ Len(popped[workflow_queue]) = 1
    /\ Len(queues[workflow_queue]) = Len(workflow_metas.list) - 1

\* C8: the instance that is current holds a contiguous, FIFO-ordered part of the
\* one snapshot it was created for: what is left after the igniter's gets of what
\* the handler has put so far.
C8_NoMixedSnapshots ==
    LET q == queues[workflow_queue]
        snap == snap_of[workflow_queue]
        a == Len(popped[workflow_queue])
    IN  /\ a + Len(q) <= Len(snap)
        /\ q = SubSeq(snap, a + 1, a + Len(q))

\* the second snapshot is partly enqueued, differs from the first, and the
\* replaced instance still holds items of the first
C8_Witness ==
    /\ polls = 2 /\ pc_h = "enqueue"
    /\ Len(queues[workflow_queue]) >= 1
    /\ queues[h_cycle.start_ref] # <<>>
    /\ snap_of[workflow_queue] # snap_of[h_cycle.start_ref]

\* C10: a poll that returns the workflows strictly newest first leaves them in
\* the queue oldest first: the ids the igniter got followed by the ids still
\* queued are the reverse of the returned order.
C10_NewestFirstPollIsReversed ==
    (/\ SuccessfulCycleOver
     /\ \A j, k \in 1..Len(workflow_metas.list) :
           j < k => workflow_metas.list[j].submission > workflow_metas.list[k].submission
     /\ Len(workflow_metas.list) >= 2)
    => popped[workflow_queue] \o Ids(queues[workflow_queue])
          = Reverse(Ids(workflow_metas.list))

\* the scenario: three workflows returned as [T3, T2, T1], queued as 1, 2, 3
C10_Witness ==
    /\ SuccessfulCycleOver
    /\ Ids(workflow_metas.list) = <<3, 2, 1>>
    /\ Ids(queues[workflow_queue]) = <<1, 2, 3>>

----------------------------------------------------------------------------
(* Properties of prepare_workflows (SpecPrepare) *)

AllParse(metas) == \A k \in 1..Len(metas) : metas[k].submission # None

\* the output lists the blocks by non-decreasing submission timestamp
OutputOldestFirst(metas, out) ==
    \A j, k \in 1..Len(out) :
        j < k => metas[out[j].id].submission <= metas[out[k].id].submission

Monotone(metas) ==
    \/ \A j, k \in 1..Len(metas) : j < k => metas[j].submission <= metas[k].submission
    \/ \A j, k \in 1..Len(metas) : j < k => metas[j].submission >= metas[k].submission

\* C9 as claimed: for every non-empty list of metadata blocks (with timestamps
\* that parse), in whatever order, prepare_workflows yields oldest first.
C9_AnyOrderIsSorted ==
    (pc_h = "swap" /\ AllParse(workflow_metas.list))
    => OutputOldestFirst(workflow_metas.list, workflows)

\* C9 as amended: for every non-empty list whose timestamps parse and are
\* monotone along the list (oldest first or newest first), prepare_workflows
\* yields all its workflows oldest first.
C9_MonotoneOrderIsSorted ==
    (pc_h = "swap" /\ AllParse(workflow_metas.list) /\ Monotone(workflow_metas.list))
    => /\ OutputOldestFirst(workflow_metas.list, workflows)
       /\ Len(workflows) = Len(workflow_metas.list)
       /\ {workflows[k].id : k \in 1..Len(workflows)} = 1..Len(workflow_metas.list)

\* a strictly newest-first list of three was reversed
C9_Witness ==
    /\ pc_h = "swap"
    /\ Len(workflow_metas.list) = 3
    /\ \A k \in 1..2 : /\ workflow_metas.list[k].submission # None
                       /\ workflow_metas.list[k + 1].submission # None
                       /\ workflow_metas.list[k].submission
                             > workflow_metas.list[k + 1].submission
    /\ Ids(workflows) = <<3, 2, 1>>

----------------------------------------------------------------------------
(* Properties of the igniter's loop (SpecIgniter) *)

\* the igniter thread takes this step
IgniterStep == pc_i' # pc_i

\* the cycle's get found the loaded queue instance empty
FoundEmpty == ~Got /\ pc_i \in {"sleep", "dead"}

ReleaseOrAbortCalls == {k \in DOMAIN i_calls : i_calls[k].op \in {"release", "abort"}}

\* C11: a release cycle that finds the queue empty makes no engine call (no
\* duplicate query, no release, no abort), changes nothing in the engine or the
\* queues, sleeps once for workflow_start_interval, and after the sleep the next
\* cycle starts.
C11_EmptyCycleOnlySleeps ==
    /\ [](FoundEmpty => /\ i_calls = <<>>
                        /\ dup_answer = NoAnswer
                        /\ i_cycle.release = NotReleased
                        /\ i_cycle.gets = 0
                        /\ i_cycle.sleeps = <<workflow_start_interval>>
                        /\ pc_i = "sleep")
    /\ [][(pc_i = "get" /\ IgniterStep /\ queues[i_ref] = <<>>)
            => (pc_i' = "sleep" /\ engine' = engine /\ queues' = queues)]_vars
    /\ [][(FoundEmpty /\ IgniterStep) => pc_i' = "start"]_vars

\* the queue has been drained and a further cycle found it empty, while a
\* workflow is still On Hold in the engine
C11_Witness ==
    /\ FoundEmpty /\ pc_i = "sleep"
    /\ popped[i_ref] # <<>>
    /\ \E k \in 1..Len(engine) : engine[k].status = OnHold

\* C12: a cycle whose release call returned 403 goes to the next cycle without
\* the sleep, while after any other non-200 status (400, 404, 500) the cycle
\* sleeps for workflow_start_interval.
C12_NoSleepAfter403 ==
    (i_cycle.release.kind = "http error" /\ pc_i \in {"sleep", "start"})
    => IF i_cycle.release.status_code = 403
       THEN i_cycle.sleeps = <<>> /\ pc_i = "start"
       ELSE i_cycle.sleeps = <<workflow_start_interval>>

C14_IgniterNeverDies == pc_i # "dead"

\* C15: a transport error raised by the handler's query is not fatal: the cycle
\* changes neither the queue reference nor any queue, and the handler goes to
\* its sleep (from which it queries again).
C15_TransportErrorIsNotFatal ==
    [][(pc_h = "query" /\ HandlerStep /\ h_status' = 0)
        => (pc_h' = "sleep" /\ workflow_queue' = workflow_queue /\ queues' = queues)]_vars

\* this cycle's release call got a non-200 status or raised a transport error
ReleaseFailed == i_cycle.release.kind \in {"http error", "transport error"}

\* C16: when the release call for the popped workflow returns a non-200 status
\* or raises a transport error, the cycle makes no second release (or abort)
\* call, the workflow is in no queue instance afterwards, no exception is
\* propagating, and after the sleep the loop starts its next cycle.
C16_FailedReleaseIsNotRetried ==
    /\ [](ReleaseFailed
            => /\ CountCalls("release", workflow.id) = 1
               /\ Cardinality(ReleaseOrAbortCalls) = 1
               /\ \A q \in DOMAIN queues : \A k \in DOMAIN queues[q] :
                     queues[q][k].id # workflow.id
               /\ ~exc
               /\ pc_i \in {"sleep", "start"})
    /\ [][(ReleaseFailed /\ pc_i = "sleep" /\ IgniterStep) => pc_i' = "start"]_vars

\* the release of the first workflow raised a transport error, the loop went on
\* to its next cycle, and the second workflow is still queued
C16_Witness ==
    /\ i_cycle.release.kind = "transport error"
    /\ pc_i = "start"
    /\ workflow.id = 1
    /\ engine[1].status = OnHold
    /\ Len(queues[i_ref]) = 1

\* the non-forced workflows, other than the candidate, that this cycle's
\* duplicate query returned as On Hold
OnHoldGroupPeers == {r \in OnHoldPeers : ~HasForce(engine[r.id])}

\* C17: when the cycle of a non-forced candidate is over (its duplicate query
\* and its release or abort call, if any, succeeded; no peer has its very
\* bundle_version), the candidate has left On Hold: it has been released only
\* if it has the newest bundle_version of the On Hold, non-forced workflows of
\* its hash, and has been aborted otherwise.
C17_GroupMembersLeaveOnHold ==
    (/\ Got /\ CycleOver /\ ~HasForce(workflow)
     /\ dup_answer.kind = "ok"
     /\ \A r \in OnHoldGroupPeers : r.bundle_version # workflow.bundle_version
     /\ ~ReleaseFailed)
    => /\ engine[workflow.id].status # OnHold
       /\ engine[workflow.id].status = "Running"
             => \A r \in OnHoldGroupPeers : r.bundle_version < workflow.bundle_version
       /\ (\E r \in OnHoldGroupPeers : r.bundle_version > workflow.bundle_version)
             => engine[workflow.id].status = "Aborted"
----------------------------------------------------------------------------
(* Properties of the two threads on the shared queue (Spec) *)

\* C18: the reference workflow_queue is written only by the handler, at its
\* swap and at most once per poll cycle; a queue instance is created and grows
\* only by a step of the handler; a step of the igniter leaves the reference
\* alone and changes no instance but by taking the head of the one it loaded.
C18_HandlerIsTheOnlyWriter ==
    /\ [](h_cycle.swaps <= 1)
    /\ [][workflow_queue' # workflow_queue
            => (pc_h = "swap" /\ h_cycle.swaps = 0 /\ UNCHANGED igniterVars)]_vars
    /\ [][Len(queues') # Len(queues)
            => (pc_h = "swap" /\ Len(queues') = Len(queues) + 1 /\ UNCHANGED igniterVars)]_vars
    /\ [][(\E q \in DOMAIN queues : Len(queues'[q]) > Len(queues[q]))
            => (pc_h = "enqueue" /\ UNCHANGED igniterVars)]_vars
    /\ [][IgniterStep
            => /\ workflow_queue' = workflow_queue
               /\ Len(queues') = Len(queues)
               /\ \A q \in DOMAIN queues :
                     \/ queues'[q] = queues[q]
                     \/ q = i_ref /\ queues[q] # <<>> /\ queues'[q] = Tail(queues[q])]_vars

\* the handler has swapped twice and the igniter has got a workflow from an
\* instance that still holds another
C18_Witness ==
    /\ Len(queues) = 3 /\ workflow_queue = 3
    /\ \E q \in DOMAIN queues : popped[q] # <<>> /\ queues[q] # <<>>

\* C19: neither thread waits on the queue: the igniter's get is enabled
\* whatever the loaded instance holds, and on an empty one it leads to the
\* sleep; the handler's put is enabled whatever the instance holds; so is the
\* swap.
C19_NoThreadWaitsOnTheQueue ==
    /\ pc_i = "get" => ENABLED I_Get
    /\ (pc_i = "get" /\ queues[i_ref] = <<>>) => ENABLED (I_Get /\ pc_i' = "sleep")
    /\ pc_h = "enqueue" => ENABLED H_Enqueue
    /\ pc_h = "swap" => ENABLED H_RebuildQueue

\* the igniter is about to get from an empty instance while the handler is
\* about to put into an instance that already holds two workflows
C19_Witness ==
    /\ pc_i = "get" /\ queues[i_ref] = <<>>
    /\ pc_h = "enqueue" /\ Len(queues[workflow_queue]) >= 2

\* C20: the workflows of a snapshot are put one by one, and the igniter can
\* step between two puts: while the handler is enqueuing, the new instance
\* holds only what was put so far (less what the igniter got), which is fewer
\* than the N workflows of the snapshot, and each step of enqueue adds one.
C20_SnapshotIsEnqueuedOneByOne ==
    /\ [](pc_h = "enqueue"
            => /\ workflows # <<>>
               /\ Len(h_cycle.puts) + Len(workflows) = Len(snap_of[workflow_queue])
               /\ Len(popped[workflow_queue]) + Len(queues[workflow_queue])
                     = Len(h_cycle.puts)
               /\ Len(queues[workflow_queue]) < Len(snap_of[workflow_queue]))
    /\ [][(pc_h = "enqueue" /\ workflows' # workflows)
            => /\ Len(workflows') = Len(workflows) - 1
               /\ Len(queues'[workflow_queue]) = Len(queues[workflow_queue]) + 1
               /\ (workflows' # <<>> => pc_h' = "enqueue")
               /\ UNCHANGED igniterVars]_vars

\* the igniter loaded the new instance, found it empty and went to sleep, while
\* the handler is still enqueuing a snapshot of which the instance now holds a
\* part
C20_Witness ==
    /\ pc_h = "enqueue"
    /\ i_ref = workflow_queue /\ i_ref = h_cycle.made
    /\ FoundEmpty /\ pc_i = "sleep"
    /\ Len(snap_of[workflow_queue]) >= 2
    /\ Len(queues[workflow_queue]) >= 1
----------------------------------------------------------------------------
(* Properties of Workflow.__eq__ (SpecEq) *)

\* C21: a Workflow equals another value if and only if that value is a Workflow
\* with the same id, whatever the bundle_uuid and bundle_version of the two; it
\* never equals a value that is not a Workflow.
C21_EqualIffSameId ==
    (pc_m = "call" /\ returned # "none")
    => /\ returned \in {"True", "False"}
       /\ returned = "True" <=> (/\ args[2].type = "Workflow"
                                 /\ args[1].value.id = args[2].value.id)

\* two Workflow objects with one id that differ in both other fields are equal
C21_Witness ==
    /\ pc_m = "call" /\ returned = "True"
    /\ args[1].value.bundle_uuid # args[2].value.bundle_uuid
    /\ args[1].value.bundle_version # args[2].value.bundle_version
----------------------------------------------------------------------------
(* Properties of the ordering decision (SpecPrepare) *)

\* submission timestamps of the first and the last block of this cycle's list
FirstSubmission == workflow_metas.list[1].submission
LastSubmission == workflow_metas.list[Len(workflow_metas.list)].submission

\* prepare_workflows has returned in this cycle
Prepared == pc_h \in {"swap", "enqueue", "sleep"}

\* C22: the order is decided from the submission timestamps of the first and
\* the last block only (both parse): with first <= last the workflows keep the
\* received order, with first > last they are in the reverse of it, whatever
\* the timestamps in between.
C22_OrderDecidedByFirstAndLast ==
    (pc_h = "swap" /\ FirstSubmission # None /\ LastSubmission # None)
    => Ids(workflows) = IF FirstSubmission > LastSubmission
                        THEN Reverse(Ids(workflow_metas.list))
                        ELSE Ids(workflow_metas.list)

\* first > last with a second block newer than both: the list was reversed
C22_Witness ==
    /\ pc_h = "swap"
    /\ Len(workflow_metas.list) = 3
    /\ FirstSubmission = 2 /\ workflow_metas.list[2].submission = 3 /\ LastSubmission = 1
    /\ Ids(workflows) = <<3, 2, 1>>

\* C23: when the submission timestamp of the first or of the last block does
\* not parse, the list is not reversed, every workflow of it is enqueued in the
\* received order, and the handler reaches the sleep that ends the cycle.
C23_UnparsedIsAssumedOldestFirst ==
    (Prepared /\ (FirstSubmission = None \/ LastSubmission = None))
    => /\ pc_h = "swap" => Ids(workflows) = Ids(workflow_metas.list)
       /\ pc_h = "enqueue"
             => Ids(queues[workflow_queue]) \o Ids(workflows) = Ids(workflow_metas.list)
       /\ pc_h = "sleep" => Ids(queues[workflow_queue]) = Ids(workflow_metas.list)

\* the first timestamp does not parse and the others are newest first: all
\* three workflows were enqueued as received
C23_Witness ==
    /\ pc_h = "sleep"
    /\ Len(workflow_metas.list) = 3
    /\ FirstSubmission = None
    /\ workflow_metas.list[2].submission = 3 /\ LastSubmission = 1
    /\ Ids(queues[workflow_queue]) = <<1, 2, 3>>
----------------------------------------------------------------------------
(* Properties of the duplicate decision (SpecIgniter) *)

\* C24: when the duplicate query of a non-forced candidate succeeds and returns
\* no workflow with another id (nothing, or the candidate alone), the cycle
\* calls release for the candidate, once, after the query.
C24_NoOtherIdIsReleased ==
    (/\ Got /\ CycleOver /\ ~HasForce(workflow)
     /\ dup_answer.kind = "ok"
     /\ \A r \in dup_answer.results : r.id = workflow.id)
    => i_calls = <<Call("query", workflow.id), Call("release", workflow.id)>>

\* the query returned the candidate alone although another workflow is On Hold
\* (with another hash), and the candidate was released
C24_Witness ==
    /\ Got /\ pc_i = "sleep" /\ ~HasForce(workflow)
    /\ dup_answer.kind = "ok"
    /\ dup_answer.results # {}
    /\ \A r \in dup_answer.results : r.id = workflow.id
    /\ \E k \in 1..Len(engine) : k # workflow.id /\ engine[k].status = OnHold
    /\ engine[workflow.id].status = "Running"

\* C25: a non-forced candidate whose On Hold peers of the same hash all have
\* its own bundle_version (a tie) is released once and not aborted.
C25_TieIsReleased ==
    (/\ Got /\ CycleOver /\ ~HasForce(workflow)
     /\ dup_answer.kind = "ok"
     /\ OnHoldPeers # {}
     /\ \A r \in dup_answer.results : r.id # workflow.id => r \in OnHoldPeers
     /\ \A r \in OnHoldPeers : r.bundle_version = workflow.bundle_version)
    => /\ CountCalls("release", workflow.id) = 1
       /\ CountCalls("abort", workflow.id) = 0
----------------------------------------------------------------------------
(* Properties of the handler's loop and of the records it enqueues *)

\* C26: every poll cycle, whatever the query gave (results, none, a non-success
\* status, a transport error), ends in the handler's sleep, from which alone
\* the next query starts: the handler thread never terminates.
C26_EveryPollCycleEndsAsleep ==
    /\ [](pc_h # "dead")
    /\ [][(pc_h' = "query" /\ pc_h # "query") => pc_h = "sleep"]_vars

\* C27: every Workflow of the prepared list has the id of its metadata block,
\* the bundle-uuid and bundle-version of the block's labels (None without
\* labels), and a labels attribute holding the block's labels, so that the
\* igniter can read key-data-hash and force from it.
C27_WorkflowCarriesLabels ==
    pc_h = "swap"
    => \A k \in 1..Len(workflows) :
          \E j \in 1..Len(workflow_metas.list) :
              LET m == workflow_metas.list[j]
                  w == workflows[k]
              IN  /\ w.id = m.id
                  /\ w.bundle_uuid = (IF m.has_labels THEN Get(m.labels, "bundle-uuid")
                                      ELSE None)
                  /\ w.bundle_version = (IF m.has_labels
                                         THEN Get(m.labels, "bundle-version") ELSE None)
                  /\ w.has_labels
                  /\ m.has_labels => w.labels = m.labels

----------------------------------------------------------------------------
(* Properties of the program's start and of /health (SpecApp) *)

\* the objects have been constructed
Constructed == pc_m \notin {"config", "call"}

\* C28: whatever cromwell_query_dict the configuration file holds, the dict
\* get_settings returns has status 'On Hold', so has the handler's query dict,
\* and so has the dict of every query the handler sends; no step after the
\* construction changes either dict.
C28_EveryQueryAsksForOnHold ==
    /\ [](Constructed => /\ Get(settings, "status") = OnHold
                         /\ Get(cromwell_query_dict, "status") = OnHold
                         /\ \A p \in config.cromwell_query_dict :
                               p[1] # "status" => p \in settings)
    /\ [](polls > 0 => Get(h_cycle.query, "status") = OnHold)
    /\ [][Constructed => (settings' = settings
                          /\ cromwell_query_dict' = cromwell_query_dict)]_vars

\* the file asks for status Running; the handler has sent its second query and
\* the igniter has got a workflow
C28_Witness ==
    /\ config.present /\ <<"status", "Running">> \in config.cromwell_query_dict
    /\ polls = 2
    /\ Got

\* C29: when the handler's or the igniter's thread had ended by the time a
\* request to /health was taken, the response is the failure indicator and not
\* the report of healthy threads.
C29_HealthReportsDeadThread ==
    (health.kind \in {"Falcon threads", "Error in thread"} /\ health.terminated # {})
    => health.kind = "Error in thread"

\* C30: after Igniter.spawn_and_start was called with an object that is not a
\* QueueHandler, TypeError was raised, self.thread is still None and the
\* igniter's loop has not started; with a QueueHandler the thread is started.
C30_SpawnNeedsQueueHandler ==
    (pc_m \in {"serving", "dead"})
    => IF args[1].type # "QueueHandler"
       THEN /\ returned = "TypeError"
            /\ i_thread = NoThread
            /\ pc_i = "unstarted"
            /\ pc_m = "dead"
       ELSE /\ returned = "none"
            /\ i_thread = "started"
            /\ pc_m = "serving"

\* spawn_and_start was given the fake handler of the test while the handler's
\* own thread is polling
C30_Witness ==
    /\ pc_m = "dead" /\ returned = "TypeError"
    /\ args[1].type = "fake_handler"
    /\ i_thread = NoThread
    /\ polls >= 1
----------------------------------------------------------------------------
(* Properties of the two loops together *)

\* the cycle's query got a success response with zero results
EmptyResult(status, metas) == status = 200 /\ ~metas.is_none /\ metas.list = <<>>

\* C31: no step of the handler in a poll cycle whose query succeeded with zero
\* results changes the queue reference or the contents of any instance: the
\* cycle ends in its sleep without a swap and without a put, whatever the
\* current instance holds.
C31_EmptyResultKeepsQueue ==
    /\ [][(HandlerStep /\ EmptyResult(h_status', workflow_metas'))
            => (workflow_queue' = workflow_queue /\ queues' = queues)]_vars
    /\ []((pc_h = "sleep" /\ EmptyResult(h_status, workflow_metas))
            => /\ workflow_queue = h_cycle.start_ref
               /\ h_cycle.swaps = 0
               /\ h_cycle.puts = <<>>)

\* the second poll succeeded with zero results; the current instance still
\* holds a workflow of the first snapshot that is no longer On Hold, and the
\* igniter has loaded that instance and is about to get from it
C31_Witness ==
    /\ polls = 2 /\ pc_h = "sleep" /\ EmptyResult(h_status, workflow_metas)
    /\ queues[workflow_queue] # <<>>
    /\ engine[Head(queues[workflow_queue]).id].status # OnHold
    /\ pc_i = "get" /\ i_ref = workflow_queue

\* the call this step of the igniter issues, if it issues one
IssuesCall(op) ==
    /\ Len(i_calls') = Len(i_calls) + 1
    /\ i_calls'[Len(i_calls')].op = op

HeldAlone(w) ==
    /\ w \in 1..Len(engine)
    /\ engine[w].status = OnHold
    /\ ~HasForce(engine[w])
    /\ \A k \in 1..Len(engine) :
          k # w => Get(engine[k].labels, "key-data-hash")
                      # Get(engine[w].labels, "key-data-hash")

\* C33: under fair scheduling of both loops, with every engine call answered
\* with success, every workflow that is On Hold without force label and without
\* same-hash peer is eventually released.
C33_HeldWorkflowIsReleased ==
    \A w \in 1..MaxLoopWf : HeldAlone(w) ~> (engine[w].status = "Running")

\* the igniter gets a workflow from the instance q in this step
PopsFrom(q) == q \in DOMAIN popped /\ popped'[q] # popped[q]

Dropped(q) == q < workflow_queue /\ ~(pc_i = "get" /\ i_ref = q)

----------------------------------------------------------------------------
(* Properties of spawn_and_start called again (SpecSpawn) *)

\* C35: a call of spawn_and_start on a QueueHandler or an Igniter whose thread
\* was started before starts no loop: it raises, the thread of the instance is
\* the one it was, and the loop that runs (or has ended) is where it was.
C35_SecondSpawnStartsNoLoop ==
    [][(pc_m' # pc_m)
        => /\ (args'[1].type = "QueueHandler" /\ h_thread = "started")
                 => /\ returned' = "RuntimeError"
                    /\ h_thread' = "started"
                    /\ UNCHANGED handlerVars
           /\ (args'[1].type = "Igniter" /\ i_thread = "started")
                 => /\ returned' \in {"RuntimeError", "TypeError"}
                    /\ i_thread' = "started"
                    /\ UNCHANGED igniterVars]_vars

\* the second call was made on the handler while its loop, started by the
\* first, had fetched a poll's result
C35_Witness ==
    /\ pc_m = "called_twice"
    /\ args[1].type = "QueueHandler" /\ returned = "RuntimeError"
    /\ h_thread = "started" /\ i_thread = NoThread
    /\ pc_h = "fetched" /\ polls = 1

----------------------------------------------------------------------------
(* Properties of the duplicate check against admitted workflows (SpecIgniter) *)

\* the candidate has a key-data-hash that a workflow of another id, which a
\* release has admitted (Running), carries too
AdmittedPeers ==
    {k \in 1..Len(engine) :
        /\ k # workflow.id
        /\ engine[k].status = "Running"
        /\ "key-data-hash" \in Keys(workflow.labels)
        /\ Get(engine[k].labels, "key-data-hash") = Get(workflow.labels, "key-data-hash")}

\* C36: no release call is issued for a candidate without force label while
\* another workflow with the candidate's key-data-hash is Running in the engine.
C36_DuplicateOfAdmittedIsNotReleased ==
    [][IssuesCall("release") => (HasForce(workflow) \/ AdmittedPeers = {})]_vars
====
